---------------------------- MODULE Spec2Model ----------------------------
(***************************************************************************)
(* A model of unpage (ricardobranco777/unpage), the pagination engine that *)
(* fetches every page of a paginated JSON API: getNestedValue,             *)
(* getNextLastLinks, getPage, getInt, getString, getEntries and unpage,    *)
(* with the errgroup fan-out it uses when the page count is known.         *)
(*                                                                         *)
(* Go strings are sequences of tokens: "" is << >>, the key path           *)
(* "links.next" is <<"links", ".", "next">> and the URL                    *)
(* "http://h1/?page=2" is <<"http://h1", "/", "?page=", "2">>.  Decimal    *)
(* numerals are single tokens, converted by Atoi and Itoa.                 *)
(***************************************************************************)
EXTENDS Integers, Sequences, FiniteSets, TLC

(***************************************************************************)
(* Bounds of the model.                                                    *)
(***************************************************************************)
\* largest page number an API link or page parameter names
MaxPage == 3
\* largest number of entries on one page
MaxEntries == 2
\* largest number of requests the sequential follower issues in one run
MaxFollow == 3
\* largest total page count of the fan-out's counting specification is
\* Limit + MaxExtra + 1
MaxExtra == 2
\* largest count and page size of the count arithmetic's specification
MaxCount == 14
MaxPageSize == 8
\* the segments of the longest key path given to getNestedValue on its own
MaxSegments == 3
\* the entries of the longest Link header given to getNextLastLinks on its own
MaxLinks == 2

\* g.SetLimit(50)
Limit == 50

(***************************************************************************)
(* Strings.                                                                *)
(***************************************************************************)
EmptyStr == << >>

\* strings.HasPrefix(s, "/")
HasSlashPrefix(s) == Len(s) > 0 /\ s[1] = "/"

RECURSIVE SplitAcc(_, _, _, _)
SplitAcc(s, i, cur, acc) ==
    IF i > Len(s) THEN Append(acc, cur)
    ELSE IF s[i] = "." THEN SplitAcc(s, i + 1, << >>, Append(acc, cur))
    ELSE SplitAcc(s, i + 1, Append(cur, s[i]), acc)

\* strings.Split(key, "."): the segments between the dots; one empty segment
\* for the empty string
Split(s) == SplitAcc(s, 1, << >>, << >>)

\* the decimal numerals the model writes and reads
Numerals == {"-1", "0", "1", "2", "3", "4", "5"}

NumeralValue(tok) ==
    CASE tok = "-1" -> -1
      [] tok = "0" -> 0
      [] tok = "1" -> 1
      [] tok = "2" -> 2
      [] tok = "3" -> 3
      [] tok = "4" -> 4
      [] tok = "5" -> 5

\* a conversion that reads 0 where there is no numeral
AtoiLenient(s) ==
    IF Len(s) = 1 /\ s[1] \in Numerals
    THEN [ok |-> TRUE, n |-> NumeralValue(s[1])]
    ELSE [ok |-> TRUE, n |-> 0]

\* strconv.Atoi: the value and whether the string is a numeral
Atoi(s) ==
    IF Len(s) = 1 /\ s[1] \in Numerals
    THEN [ok |-> TRUE, n |-> NumeralValue(s[1])]
    ELSE [ok |-> FALSE, n |-> 0]

\* strconv.Itoa
Itoa(n) == << CHOOSE tok \in Numerals : NumeralValue(tok) = n >>

(***************************************************************************)
(* URLs.  The target URL carries no page parameter of its own.             *)
(***************************************************************************)
urlStr == <<"http://h1", "/">>

\* the token that introduces the value of query parameter `name`
QueryToken(name) == IF name = <<"page">> THEN "?page=" ELSE "?="

\* url.Parse(u).Query().Get(name): the value of the parameter, "" when the
\* URL has none
QueryGet(u, name) ==
    IF \E i \in 1..Len(u) : u[i] = QueryToken(name) /\ i < Len(u)
    THEN LET i == CHOOSE j \in 1..Len(u) : u[j] = QueryToken(name) /\ j < Len(u)
         IN  << u[i + 1] >>
    ELSE EmptyStr

\* q.Add(k, v) for every parameter, then q.Encode(): params is a set of
\* <<name, value>> pairs (at most one here)
AddParams(u, params) ==
    IF params = {} THEN u
    ELSE LET p == CHOOSE x \in params : TRUE
         IN  u \o << QueryToken(p[1]) >> \o p[2]

\* fmt.Sprintf("%s://%s%s", scheme, host, link)
Resolve(schemeHost, link) == << schemeHost >> \o link


(***************************************************************************)
(* JSON.  A document on the wire is a tagged record: an object             *)
(* [t |-> "object", m |-> members], an array [t |-> "array", a |-> items], *)
(* a string, a number, null, or text that is no JSON at all.  Object       *)
(* members are keyed by strings (token sequences).                         *)
(***************************************************************************)
JNull == [t |-> "null"]
JStr(s) == [t |-> "string", s |-> s]
JNum(n) == [t |-> "number", n |-> n]
JArr(a) == [t |-> "array", a |-> a]
JObj(m) == [t |-> "object", m |-> m]
JInvalid == [t |-> "invalid"]

\* Go's nil interface value
Nil == [t |-> "nil"]

RECURSIVE Decode(_)
\* json.NewDecoder(r).Decode(&rawBody) into an `any`: the Go value built for
\* a valid document (objects become map[string]any, arrays []any, numbers
\* float64, null nil)
Decode(d) ==
    CASE d.t = "object" -> [t |-> "map", m |-> [k \in DOMAIN d.m |-> Decode(d.m[k])]]
      [] d.t = "array" -> [t |-> "slice", a |-> d.a]
      [] d.t = "string" -> [t |-> "string", s |-> d.s]
      [] d.t = "number" -> [t |-> "float64", n |-> d.n]
      [] d.t = "null" -> Nil

\* whether Decode returns a nil error
DecodeOk(d) == d.t # "invalid"

RECURSIVE Walk(_, _, _)
Walk(value, keys, i) ==
    IF i > Len(keys) THEN value
    ELSE IF value.t # "map" THEN Nil
    ELSE IF keys[i] \notin DOMAIN value.m THEN Nil
    ELSE Walk(value.m[keys[i]], keys, i + 1)

\* a lookup of the whole key as one member name
getNestedValueFlat(data, key) == Walk(data, << key >>, 1)

\* getNestedValue(data, key)
getNestedValue(data, key) == Walk(data, Split(key), 1)

\* getInt(body, key): [err, n]
getInt(body, key) ==
    IF key = EmptyStr THEN [err |-> "none", n |-> 0]
    ELSE LET v == getNestedValue(body, key)
         IN  CASE v.t = "int" -> [err |-> "none", n |-> v.n]
               [] v.t = "int64" -> [err |-> "none", n |-> v.n]
               [] v.t = "json.Number" ->
                    IF v.isInt THEN [err |-> "none", n |-> v.n]
                    ELSE [err |-> "value", n |-> 0]
               [] OTHER -> [err |-> "type", n |-> 0]

\* a getString without the nil case: a missing or null value is an error
getStringNilIsError(body, key) ==
    IF key = EmptyStr THEN [err |-> "none", s |-> EmptyStr]
    ELSE LET v == getNestedValue(body, key)
         IN  CASE v.t = "string" -> [err |-> "none", s |-> v.s]
               [] OTHER -> [err |-> "type", s |-> EmptyStr]

\* getString(body, key): [err, s]
getString(body, key) ==
    IF key = EmptyStr THEN [err |-> "none", s |-> EmptyStr]
    ELSE LET v == getNestedValue(body, key)
         IN  CASE v.t = "string" -> [err |-> "none", s |-> v.s]
               [] v.t = "nil" -> [err |-> "none", s |-> EmptyStr]
               [] OTHER -> [err |-> "type", s |-> EmptyStr]

\* getEntries without the assignment in its []any case
getEntriesNoArray(rawBody, dataKey) ==
    CASE rawBody.t = "map" ->
           LET v == getNestedValue(rawBody, dataKey)
           IN  IF v.t = "slice" THEN [err |-> "none", a |-> v.a]
               ELSE [err |-> "type", a |-> << >>]
      [] rawBody.t = "slice" -> [err |-> "none", a |-> << >>]
      [] OTHER -> [err |-> "type", a |-> << >>]

\* getEntries that takes a root array only when dataKey is empty
getEntriesArrayUnkeyed(rawBody, dataKey) ==
    CASE rawBody.t = "map" ->
           LET v == getNestedValue(rawBody, dataKey)
           IN  IF v.t = "slice" THEN [err |-> "none", a |-> v.a]
               ELSE [err |-> "type", a |-> << >>]
      [] rawBody.t = "slice" ->
           IF dataKey = EmptyStr THEN [err |-> "none", a |-> rawBody.a]
           ELSE [err |-> "type", a |-> << >>]
      [] OTHER -> [err |-> "type", a |-> << >>]

\* getEntries(rawBody, dataKey): [err, a]
getEntries(rawBody, dataKey) ==
    CASE rawBody.t = "map" ->
           LET v == getNestedValue(rawBody, dataKey)
           IN  IF v.t = "slice" THEN [err |-> "none", a |-> v.a]
               ELSE [err |-> "type", a |-> << >>]
      [] rawBody.t = "slice" -> [err |-> "none", a |-> rawBody.a]
      [] OTHER -> [err |-> "type", a |-> << >>]

(***************************************************************************)
(* The Link header.  A header value is the sequence of its comma-separated *)
(* chunks; a chunk is the sequence of its semicolon-separated pieces after *)
(* trimming: an angle-bracketed URL [k |-> "url", v |-> u], a parameter    *)
(* [k |-> "param", key |-> name, val |-> unquoted value], or any other     *)
(* text [k |-> "text"].  The empty header is one chunk of one empty piece. *)
(***************************************************************************)
PUrl(u) == [k |-> "url", v |-> u]
PRel(val) == [k |-> "param", key |-> "rel", val |-> val]
PText == [k |-> "text"]

RECURSIVE ChunkScan(_, _, _, _)
\* the inner loop of getNextLastLinks over the pieces of one chunk
ChunkScan(chunk, i, url, rel) ==
    IF i > Len(chunk) THEN [url |-> url, rel |-> rel]
    ELSE LET piece == chunk[i]
         IN  IF piece.k = "url" THEN ChunkScan(chunk, i + 1, piece.v, rel)
             ELSE IF piece.k = "param" /\ piece.key = "rel"
                  THEN ChunkScan(chunk, i + 1, url, piece.val)
             ELSE ChunkScan(chunk, i + 1, url, rel)

RECURSIVE LinkScan(_, _, _, _)
\* the outer loop of getNextLastLinks over the chunks
LinkScan(header, i, next, last) ==
    IF i > Len(header) THEN [next |-> next, last |-> last]
    ELSE LET c == ChunkScan(header[i], 1, EmptyStr, "")
         IN  IF c.rel = "next" THEN LinkScan(header, i + 1, c.url, last)
             ELSE IF c.rel = "last" THEN LinkScan(header, i + 1, next, c.url)
             ELSE LinkScan(header, i + 1, next, last)

\* getNextLastLinks(header): [next, last]
getNextLastLinks(header) == LinkScan(header, 1, EmptyStr, EmptyStr)


(***************************************************************************)
(* The API.  A response is [st, body, link, host]: st is "ok" (status      *)
(* 200), "status" (any other status) or "transport" (client.Do failed);    *)
(* body is the document on the wire; link is the Link header; host is the  *)
(* scheme and host of resp.Request.URL.  The API is unchanged during a     *)
(* run: the response to a URL is chosen when the URL is first requested    *)
(* and kept in api.  Parts of a response that the run's configuration      *)
(* never reads are not varied.                                             *)
(***************************************************************************)
Absent == [t |-> "absent"]

Abs(tok) == <<"http://h1", "/", "?page=", tok>>
Rel(tok) == <<"/", "?page=", tok>>
\* a link whose query gives a value to the parameter of the empty name
NoName(tok) == <<"http://h1", "/", "?=", tok>>

\* a link to a page that another host serves
Other(tok) == <<"http://h2", "/", "?page=", tok>>

\* the links an API puts at a next position and at a last position
NextLinks == {Abs(Itoa(n)[1]) : n \in 2..MaxPage} \cup {Rel("2")}
LastLinks == {Abs(Itoa(n)[1]) : n \in -1..MaxPage}
                 \cup {Rel(Itoa(MaxPage)[1]), urlStr, Abs("abc"), NoName("2")}

\* the entries of the page at URL u: each entry names its page and position
Entries(u, n) == [i \in 1..n |-> [src |-> u, i |-> i]]
EntrySizes == {0, MaxEntries}

Present(pairs) == {p \in pairs : p[2].t # "absent"}
Members(pairs) ==
    [k \in {p[1] : p \in Present(pairs)} |->
        (CHOOSE p \in Present(pairs) : p[1] = k)[2]]

\* {"data": d, "links": {"next": n, "last": l}, "count": c}, leaving out
\* what is absent
ObjBody(d, n, l, c) ==
    LET links == IF n.t = "absent" /\ l.t = "absent" THEN Absent
                 ELSE JObj(Members({<< <<"next">>, n >>, << <<"last">>, l >>}))
    IN  JObj(Members({<< <<"data">>, d >>, << <<"links">>, links >>,
                      << <<"count">>, c >>}))

\* the values an API has at "data": an array of entries, or, misshapen, a
\* string or nothing
GoodData(u) == {JArr(Entries(u, n)) : n \in EntrySizes}
BadData == {JStr(<<"x">>), Absent}

\* the values it has at a link member: nothing, null, a number, a link
LinkDocs(links) == {Absent, JNull, JNum(1)} \cup {JStr(l) : l \in links}
CountDocs == {Absent, JNum(0), JNum(3 * MaxEntries), JStr(<<"6">>)}

\* the next and last members of a first page: each alone, and a last one
\* beside a next one
LinkPairs(ns, ls) ==
    {<<n, l>> \in ns \X ls :
        \/ l = Absent
        \/ n = Absent
        \/ n = JStr(Abs("2"))}

EmptyHeader == << <<PText>> >>
\* the headers that name a next page or none: the next page may be another
\* host's
NextHeaders ==
    {EmptyHeader}
      \cup {<< <<PUrl(l), PRel("next")>> >> : l \in NextLinks \cup {Other("2")}}
FirstHeaders ==
    NextHeaders
      \cup {<< <<PUrl(l), PRel("last")>> >> : l \in LastLinks}
      \cup {<< <<PUrl(n), PRel("next")>>, <<PUrl(l), PRel("last")>> >> :
                n \in {Abs("2")}, l \in LastLinks}

\* the bodies of the page at u whose <<next, last>> members are drawn from
\* nls and whose count member from cs: objects with entries, an array of
\* entries, and the bodies unpage rejects
Bodies(u, nls, cs) ==
    {ObjBody(d, nl[1], nl[2], c) : d \in GoodData(u), nl \in nls, c \in cs}
      \cup {ObjBody(d, Absent, Absent, Absent) : d \in BadData}
      \cup {JArr(Entries(u, MaxEntries)), JStr(<<"x">>), JInvalid}

HostOf(u) == u[1]

\* the responses with the given bodies and headers, and the failed ones: a
\* status other than 200 (its body is JSON too) and a transport error (its
\* body is never seen)
Answers(u, bodies, headers) ==
    {[st |-> "ok", body |-> b, link |-> h, host |-> HostOf(u)] :
        b \in bodies, h \in headers}
      \cup {[st |-> s, body |-> JArr(Entries(u, MaxEntries)), link |-> EmptyHeader,
              host |-> HostOf(u)] : s \in {"status", "transport"}}

\* what the API may answer to the first request of a run configured with
\* the keys k: links in the body, links in the header, and, where the run
\* reads both, a last link in the body beside a header
FirstAnswers(u, k) ==
    LET ns == IF k.nextKey = EmptyStr THEN {Absent} ELSE LinkDocs(NextLinks)
        ls == IF k.lastKey = EmptyStr THEN {Absent} ELSE LinkDocs(LastLinks)
        cs == IF k.countKey = EmptyStr THEN {Absent} ELSE CountDocs
        none == {<<Absent, Absent>>}
    IN  Answers(u, Bodies(u, LinkPairs(ns, ls), cs), {EmptyHeader})
          \cup (IF k.nextKey = EmptyStr
                THEN Answers(u, Bodies(u, none, cs), FirstHeaders)
                       \cup Answers(u, Bodies(u, {Absent} \X ls, {Absent}),
                                    {<< <<PUrl(Abs("2")), PRel("next")>> >>,
                                     << <<PUrl(Abs("2")), PRel("last")>> >>})
                ELSE {})

\* what it may answer to a worker's request
WorkerAnswers(u) == Answers(u, Bodies(u, {<<Absent, Absent>>}, {Absent}), {EmptyHeader})

\* what it may answer to a request of the sequential follower: the next
\* link in the header, or in the body, there with or without a header that
\* names the last page of the target as next
FollowAnswers(u, k) ==
    IF HostOf(u) = HostOf(Other("2"))
    THEN \* the other host's page: its entries, and a relative next link or none
         Answers(u, {JArr(Entries(u, MaxEntries))},
                 {EmptyHeader, << <<PUrl(Rel(Itoa(MaxPage)[1])), PRel("next")>> >>})
    ELSE
    Answers(u,
            Bodies(u,
                   IF k.nextKey = EmptyStr THEN {<<Absent, Absent>>}
                   ELSE LinkDocs(NextLinks) \X {Absent},
                   {Absent}),
            IF k.nextKey = EmptyStr THEN NextHeaders
            ELSE {EmptyHeader,
                  << <<PUrl(Abs(Itoa(MaxPage)[1])), PRel("next")>> >>})

\* the answer to u: the one already given, or any of `fresh`
Answer(known, u, fresh) == IF u \in DOMAIN known THEN {known[u]} ELSE fresh

Remember(known, u, resp) ==
    [v \in DOMAIN known \cup {u} |-> IF v = u THEN resp ELSE known[v]]


(***************************************************************************)
(* The state of one run of unpage.                                         *)
(***************************************************************************)
VARIABLES
    pc,          \* where unpage is: "first", "launch", "wait", "flatten",
                 \* "follow", "done"; "count" and "counted" in the
                 \* specification of the count arithmetic; "call" and
                 \* "returned" where a function is called on its own
    keys,        \* the parameters paramPage, countKey, dataKey, nextKey, lastKey
    keys0,       \* their values when unpage was called
    api,         \* the responses the API has given, by URL
    requests,    \* the URLs unpage itself has requested so far, in order
    sent,        \* the URLs the task of each page has requested, in order
    firstHost,   \* scheme and host of the first response's request
    entries,     \* the entries of page 1, then the follower's accumulation
    nextLink,
    lastLink,
    count,
    totalPages,
    pages,       \* the result slots: [set, a] by page index
    page,        \* the launch loop's page
    task,        \* the state of the task of each page: "idle", "go", "sent",
                 \* "ok", "err"
    active,      \* tokens held in the errgroup's semaphore
    gerr,        \* the errgroup's first error
    cancelled,   \* whether the errgroup's context is cancelled
    follows,     \* iterations of the follower's loop so far
    result,      \* the entries unpage returns
    err,         \* the error unpage returns
    overtaken,   \* history: a task has returned nil before the task of a
                 \* smaller page returned
    callerDone,  \* the deadline of unpage's caller has passed
    earlier,     \* the outcomes [result, err] of the earlier runs of unpage
                 \* against this API, in order
    input,       \* the arguments of a function called on its own
    output,      \* what it returned
    bodies       \* the response bodies open: [first, deferred], whether the
                 \* first response's is, and those of the follower's
                 \* responses, each with a deferred Close

vars == <<pc, keys, keys0, api, requests, sent, firstHost, entries, nextLink, lastLink,
          count, totalPages, pages, page, task, active, gerr, cancelled,
          follows, result, err, overtaken, callerDone, earlier, input, output, bodies>>

NoErr == [k |-> "none", p |-> 0]
NoBodies == [first |-> FALSE, deferred |-> {}]
Err(kind, p) == [k |-> kind, p |-> p]

KeyChoices ==
    [paramPage : {EmptyStr, <<"page">>},
     countKey : {EmptyStr, <<"count">>},
     dataKey : {EmptyStr, <<"data">>},
     nextKey : {EmptyStr, <<"links", ".", "next">>},
     lastKey : {EmptyStr, <<"links", ".", "last">>}]

\* the state in which unpage is called with the keys k
Called(k) ==
    /\ keys = k
    /\ keys0 = k
    /\ api = << >>
    /\ requests = << >>
    /\ sent = << >>
    /\ firstHost = ""
    /\ entries = << >>
    /\ nextLink = EmptyStr
    /\ lastLink = EmptyStr
    /\ count = 0
    /\ totalPages = 0
    /\ pages = << >>
    /\ page = 0
    /\ task = << >>
    /\ active = 0
    /\ gerr = NoErr
    /\ cancelled = FALSE
    /\ follows = 0
    /\ result = << >>
    /\ err = NoErr
    /\ overtaken = FALSE
    /\ callerDone = FALSE
    /\ earlier = << >>
    /\ input = << >>
    /\ output = << >>
    /\ bodies = NoBodies

Init == pc = "first" /\ \E k \in KeyChoices : Called(k)

\* getPage without the check of the status
getPageAnyStatus(resp) == IF resp.st = "transport" THEN "transport" ELSE "none"

\* getPage's error for a response: none for status 200
getPage(resp) ==
    IF resp.st = "transport" THEN "transport"
    ELSE IF resp.st # "ok" THEN "status"
    ELSE "none"

\* the page count without the rounding up
CountPagesFloor(c, pageSize) == c \div pageSize

\* the page count of count mode: count / pageSize, rounded up
CountPages(c, pageSize) ==
    IF c % pageSize # 0 THEN (c \div pageSize) + 1 ELSE c \div pageSize

\* lines 236-245: with a positive count, [ret, total]: ret when page 1 is
\* the only page
CountMode(c, pageSize) ==
    IF pageSize = 0 \/ c <= pageSize THEN [ret |-> TRUE, total |-> 0]
    ELSE [ret |-> FALSE, total |-> CountPages(c, pageSize)]

\* unpage from the first response to the choice of a strategy:
\* [err, ret, entries, nextLink, lastLink, count, totalPages], ret saying
\* that unpage returns at once
Resolved(resp, k) ==
    LET fail(kind) == [err |-> kind, ret |-> TRUE, entries |-> << >>,
                       nextLink |-> EmptyStr, lastLink |-> EmptyStr,
                       count |-> 0, totalPages |-> 0]
    IN
    IF getPage(resp) # "none" THEN fail(getPage(resp))
    ELSE IF ~DecodeOk(resp.body) THEN fail("decode")
    ELSE
    LET rawBody == Decode(resp.body)
        e == getEntries(rawBody, k.dataKey)
        isMap == rawBody.t = "map"
        n == IF isMap THEN getString(rawBody, k.nextKey)
             ELSE [err |-> "none", s |-> EmptyStr]
        l == IF isMap THEN getString(rawBody, k.lastKey)
             ELSE [err |-> "none", s |-> EmptyStr]
        c == IF isMap THEN getInt(rawBody, k.countKey)
             ELSE [err |-> "none", n |-> 0]
        hdr == getNextLastLinks(resp.link)
        next == IF k.nextKey = EmptyStr THEN hdr.next ELSE n.s
        last0 == IF k.nextKey = EmptyStr THEN hdr.last ELSE l.s
        last == IF HasSlashPrefix(last0) THEN Resolve(resp.host, last0) ELSE last0
        parsed == Atoi(QueryGet(last, k.paramPage))
        pageSize == Len(e.a)
        ok(ret, total) == [err |-> "none", ret |-> ret, entries |-> e.a,
                           nextLink |-> next, lastLink |-> last,
                           count |-> c.n, totalPages |-> total]
    IN
    IF e.err # "none" THEN fail(e.err)
    ELSE IF n.err # "none" THEN fail(n.err)
    ELSE IF l.err # "none" THEN fail(l.err)
    ELSE IF c.err # "none" THEN fail(c.err)
    ELSE IF last # EmptyStr
         THEN IF parsed.ok THEN ok(FALSE, parsed.n) ELSE fail("atoi")
    ELSE IF c.n > 0
         THEN ok(CountMode(c.n, pageSize).ret, CountMode(c.n, pageSize).total)
    ELSE ok(FALSE, 0)

\* the first request's URL: urlStr with paramPage=1 when paramPage is set
FirstURL(k) ==
    AddParams(urlStr, IF k.paramPage # EmptyStr THEN {<<k.paramPage, <<"1">> >>} ELSE {})

\* a worker that sets the page parameter as the first request does
WorkerURLFirstPage(k, p) == AddParams(urlStr, {<<k.paramPage, <<"1">> >>})

\* the URL of the worker for page p
WorkerURL(k, p) == AddParams(urlStr, {<<k.paramPage, Itoa(p)>>})

\* the slots without the first page in its slot
SlotsNoFirst(total, first) == [i \in 1..total |-> [set |-> FALSE, a |-> << >>]]

\* make([][]any, totalPages-1): one slot short
SlotsOneShort(total, first) ==
    [i \in 1..(total - 1) |-> IF i = 1 THEN [set |-> TRUE, a |-> first]
                              ELSE [set |-> FALSE, a |-> << >>]]

\* make([][]any, totalPages) with pages[0] = entries
Slots(total, first) ==
    [i \in 1..total |-> IF i = 1 THEN [set |-> TRUE, a |-> first]
                        ELSE [set |-> FALSE, a |-> << >>]]

(***************************************************************************)
(* The response bodies, as src/main.go closes them.  getPage closes the    *)
(* body of a response whose status is not 200 before it returns the error. *)
(* unpage closes the first response's body once it has decoded it.  Each   *)
(* task and each iteration of the follower defers the Close of its body:   *)
(* a task's runs when the task returns, the follower's when unpage does.   *)
(***************************************************************************)
\* whether the first response's body is left open: getPage returned it
\* and the decoder failed, so unpage returned before its Close
FirstBodyLeft(resp) == getPage(resp) = "none" /\ ~DecodeOk(resp.body)

\* unpage returns: the deferred Close calls run
Closed(b) == [b EXCEPT !.deferred = {}]

\* the follower has a response: the Close of its body is deferred
Deferred(b, u, resp) ==
    IF getPage(resp) = "none" THEN [b EXCEPT !.deferred = @ \cup {u}] ELSE b

\* FirstPage: lines 180-253 and 297-298: the first request, the choice of
\* the strategy, and the setup of the fan-out
FirstPage ==
    /\ pc = "first"
    /\ LET u == FirstURL(keys)
       IN \E resp \in Answer(api, u, FirstAnswers(u, keys0)) :
            LET r == Resolved(resp, keys)
            IN
            /\ api' = Remember(api, u, resp)
            /\ requests' = Append(requests, u)
            /\ firstHost' = resp.host
            /\ bodies' = [bodies EXCEPT !.first = FirstBodyLeft(resp)]
            /\ entries' = r.entries
            /\ nextLink' = r.nextLink
            /\ lastLink' = r.lastLink
            /\ count' = r.count
            /\ totalPages' = r.totalPages
            /\ IF r.err # "none"
               THEN /\ pc' = "done"
                    /\ err' = Err(r.err, 1)
                    /\ result' = << >>
                    /\ UNCHANGED <<pages, page, task, sent>>
               ELSE IF r.ret
               THEN /\ pc' = "done"
                    /\ result' = r.entries
                    /\ UNCHANGED <<err, pages, page, task, sent>>
               ELSE IF r.totalPages > 0
               THEN /\ pc' = "launch"
                    /\ pages' = Slots(r.totalPages, r.entries)
                    /\ page' = 2
                    /\ task' = [p \in 2..r.totalPages |-> "idle"]
                    /\ sent' = [p \in 2..r.totalPages |-> << >>]
                    /\ UNCHANGED <<err, result>>
               ELSE /\ pc' = "follow"
                    /\ UNCHANGED <<err, result, pages, page, task, sent>>
    /\ UNCHANGED <<keys, keys0, active, gerr, cancelled, follows,
                   overtaken,
                   callerDone, earlier, input, output>>


(***************************************************************************)
(* The fan-out: lines 251-293.                                             *)
(***************************************************************************)
\* an errgroup without a limit
CanGoAlways(held) == TRUE

\* a semaphore without a token to give: g.SetLimit(0)
CanGoNoToken(held) == held < 0

\* g.Go blocks while the semaphore holds Limit tokens
CanGo(held) == held < Limit

\* g.Go(func): takes a token and starts the task of the loop's page
Go ==
    /\ pc = "launch"
    /\ page <= totalPages
    /\ CanGo(active)
    /\ active' = active + 1
    /\ task' = [task EXCEPT ![page] = "go"]
    /\ page' = page + 1
    /\ UNCHANGED <<pc, keys, keys0, api, requests, sent, firstHost, entries, nextLink,
                   lastLink, count, totalPages, pages, gerr, cancelled, follows,
                   result, err,
                   overtaken,
                   callerDone, earlier, input, output, bodies>>

\* the loop ends and unpage calls g.Wait
LoopEnd ==
    /\ pc = "launch"
    /\ page > totalPages
    /\ pc' = "wait"
    /\ UNCHANGED <<keys, keys0, api, requests, sent, firstHost, entries, nextLink,
                   lastLink, count, totalPages, pages, page, task, active, gerr,
                   cancelled, follows, result, err,
                   overtaken,
                   callerDone, earlier, input, output, bodies>>

\* bookkeeping that drops the task's error
TaskReturnsForgetsErr(p, e) ==
    /\ task' = [task EXCEPT ![p] = IF e = "none" THEN "ok" ELSE "err"]
    /\ active' = active - 1
    /\ UNCHANGED <<gerr, cancelled>>
    /\ overtaken' = (overtaken \/ (e = "none" /\ \E q \in DOMAIN task :
                                        q < p /\ task[q] \in {"go", "sent"}))

\* bookkeeping that keeps the latest error in place of the first
TaskReturnsLastErr(p, e) ==
    /\ task' = [task EXCEPT ![p] = IF e = "none" THEN "ok" ELSE "err"]
    /\ active' = active - 1
    /\ gerr' = IF e # "none" THEN Err(e, p) ELSE gerr
    /\ cancelled' = (cancelled \/ e # "none")
    /\ overtaken' = (overtaken \/ (e = "none" /\ \E q \in DOMAIN task :
                                        q < p /\ task[q] \in {"go", "sent"}))

\* the errgroup's bookkeeping when the task of page p returns e: the first
\* error is kept and cancels the context; the token is given back
TaskReturns(p, e) ==
    /\ task' = [task EXCEPT ![p] = IF e = "none" THEN "ok" ELSE "err"]
    /\ active' = active - 1
    /\ gerr' = IF e # "none" /\ gerr = NoErr THEN Err(e, p) ELSE gerr
    /\ cancelled' = (cancelled \/ e # "none")
    /\ overtaken' = (overtaken \/ (e = "none" /\ \E q \in DOMAIN task :
                                        q < p /\ task[q] \in {"go", "sent"}))

\* a task whose request is issued whatever the context says
WorkerSendIgnoresCancel(p) ==
    /\ task[p] = "go"
    /\ task' = [task EXCEPT ![p] = "sent"]
    /\ sent' = [sent EXCEPT ![p] = Append(@, WorkerURL(keys, p))]
    /\ UNCHANGED <<active, gerr, cancelled, overtaken>>
    /\ UNCHANGED <<pc, keys, keys0, api, requests, firstHost, entries, nextLink, lastLink,
                   count, totalPages, pages, page, follows, result, err,
                   callerDone, earlier, input, output, bodies>>

\* a task reaches client.Do: with the context cancelled the request fails
\* at once, otherwise it is issued
WorkerSend(p) ==
    /\ task[p] = "go"
    /\ IF cancelled
       THEN /\ TaskReturns(p, "canceled")
            /\ UNCHANGED sent
       ELSE /\ task' = [task EXCEPT ![p] = "sent"]
            /\ sent' = [sent EXCEPT ![p] = Append(@, WorkerURL(keys, p))]
            /\ UNCHANGED <<active, gerr, cancelled, overtaken>>
    /\ UNCHANGED <<pc, keys, keys0, api, requests, firstHost, entries, nextLink, lastLink,
                   count, totalPages, pages, page, follows, result, err,
                   callerDone, earlier, input, output, bodies>>

\* what the task of a page does with its response: [err, a]
WorkerOutcome(resp, k) ==
    IF getPage(resp) # "none" THEN [err |-> getPage(resp), a |-> << >>]
    ELSE IF ~DecodeOk(resp.body) THEN [err |-> "decode", a |-> << >>]
    ELSE getEntries(Decode(resp.body), k.dataKey)

\* the entries appended as the tasks complete: the first slot still free
SlotIndexNextFree(p) ==
    CHOOSE i \in 1..Len(pages) : ~pages[i].set /\ \A j \in 1..(i - 1) : pages[j].set

\* pages[page] in place of pages[page-1]
SlotIndexOffByOne(p) == p + 1

\* the slot the task of page p writes
SlotIndex(p) == p

\* the response arrives: the task decodes it, writes its slot and returns
WorkerRecv(p) ==
    /\ task[p] = "sent"
    /\ LET u == WorkerURL(keys, p)
       IN \E resp \in Answer(api, u, WorkerAnswers(u)) :
            LET o == WorkerOutcome(resp, keys)
            IN
            /\ api' = Remember(api, u, resp)
            /\ pages' = IF o.err = "none"
                        THEN [pages EXCEPT ![SlotIndex(p)] = [set |-> TRUE, a |-> o.a]]
                        ELSE pages
            /\ TaskReturns(p, o.err)
    /\ UNCHANGED <<pc, keys, keys0, requests, sent, firstHost, entries, nextLink,
                   lastLink, count, totalPages, page, follows, result, err,
                   callerDone, earlier, input, output, bodies>>

\* a request in flight observes the cancellation and fails
WorkerAbort(p) ==
    /\ task[p] = "sent"
    /\ cancelled
    /\ TaskReturns(p, "canceled")
    /\ UNCHANGED <<pc, keys, keys0, api, requests, sent, firstHost, entries, nextLink,
                   lastLink, count, totalPages, pages, page, follows, result, err,
                   callerDone, earlier, input, output, bodies>>

\* a Wait that returns once the launch loop has ended, tasks running or not
WaitReturnsEarly ==
    /\ pc = "wait"
    /\ IF gerr # NoErr
       THEN /\ pc' = "done"
            /\ err' = gerr
            /\ result' = << >>
       ELSE /\ pc' = "flatten"
            /\ UNCHANGED <<err, result>>
    /\ UNCHANGED <<keys, keys0, api, requests, sent, firstHost, entries, nextLink,
                   lastLink, count, totalPages, pages, page, task, active, gerr,
                   cancelled, follows,
                   overtaken,
                   callerDone, earlier, input, output, bodies>>

\* g.Wait returns once every task has returned
WaitReturns ==
    /\ pc = "wait"
    /\ active = 0
    /\ IF gerr # NoErr
       THEN /\ pc' = "done"
            /\ err' = gerr
            /\ result' = << >>
       ELSE /\ pc' = "flatten"
            /\ UNCHANGED <<err, result>>
    /\ UNCHANGED <<keys, keys0, api, requests, sent, firstHost, entries, nextLink,
                   lastLink, count, totalPages, pages, page, task, active, gerr,
                   cancelled, follows,
                   overtaken,
                   callerDone, earlier, input, output, bodies>>

RECURSIVE Concat(_, _)
\* the slots 1..n appended in index order
Concat(slots, n) == IF n = 0 THEN << >> ELSE Concat(slots, n - 1) \o slots[n].a

\* the slots are flattened into the result
Flatten ==
    /\ pc = "flatten"
    /\ result' = Concat(pages, Len(pages))
    /\ pc' = "done"
    /\ UNCHANGED <<keys, keys0, api, requests, sent, firstHost, entries, nextLink,
                   lastLink, count, totalPages, pages, page, task, active, gerr,
                   cancelled, follows, err,
                   overtaken,
                   callerDone, earlier, input, output, bodies>>

(***************************************************************************)
(* The sequential follower: lines 297-329.                                 *)
(***************************************************************************)
\* a follower that, on a page it cannot use, leaves the loop with what it
\* has accumulated
FollowedPartial(resp, k, link) ==
    IF getPage(resp) # "none" \/ ~DecodeOk(resp.body)
       \/ getEntries(Decode(resp.body), k.dataKey).err # "none"
    THEN [err |-> "none", more |-> << >>, nextKey |-> EmptyStr, nextLink |-> EmptyStr]
    ELSE LET rawBody == Decode(resp.body)
             n == IF rawBody.t = "map" THEN getString(rawBody, k.nextKey)
                  ELSE [err |-> "none", s |-> k.nextKey]
         IN  IF n.err # "none"
             THEN [err |-> n.err, more |-> << >>, nextKey |-> k.nextKey,
                   nextLink |-> link]
             ELSE [err |-> "none", more |-> getEntries(rawBody, k.dataKey).a,
                   nextKey |-> n.s,
                   nextLink |-> IF n.s = EmptyStr
                                THEN getNextLastLinks(resp.link).next ELSE link]

\* one iteration after its request: [err, more, nextKey, nextLink]
Followed(resp, k, link) ==
    LET fail(kind) == [err |-> kind, more |-> << >>, nextKey |-> k.nextKey,
                       nextLink |-> link]
    IN
    IF getPage(resp) # "none" THEN fail(getPage(resp))
    ELSE IF ~DecodeOk(resp.body) THEN fail("decode")
    ELSE
    LET rawBody == Decode(resp.body)
        e == getEntries(rawBody, k.dataKey)
        n == IF rawBody.t = "map" THEN getString(rawBody, k.nextKey)
             ELSE [err |-> "none", s |-> k.nextKey]
        \* line 318 assigns getString's result to nextKey
        newKey == n.s
        hdr == getNextLastLinks(resp.link)
    IN
    IF e.err # "none" THEN fail(e.err)
    ELSE IF n.err # "none" THEN fail(n.err)
    ELSE [err |-> "none", more |-> e.a, nextKey |-> newKey,
          nextLink |-> IF newKey = EmptyStr THEN hdr.next ELSE link]

\* a follower that requests relative links as they are
FollowURLUnresolved(link, host) == link

\* the link the follower requests: a relative one is resolved against the
\* first response's request
FollowURL(link, host) == IF HasSlashPrefix(link) THEN Resolve(host, link) ELSE link

\* one iteration of the loop.  The loop has no bound of its own: past
\* MaxFollow iterations the model keeps only the parity of their number, and
\* the record of the requests and the accumulated entries stop growing
FollowFetch ==
    /\ pc = "follow"
    /\ nextLink # EmptyStr
    /\ LET u == FollowURL(nextLink, firstHost)
           counted == follows < MaxFollow
       IN \E resp \in Answer(api, u, FollowAnswers(u, keys0)) :
            LET f == Followed(resp, keys, u)
            IN
            /\ api' = Remember(api, u, resp)
            /\ requests' = IF counted THEN Append(requests, u) ELSE requests
            /\ follows' = IF counted THEN follows + 1
                          ELSE MaxFollow + ((follows + 1 - MaxFollow) % 2)
            /\ IF f.err # "none"
               THEN /\ pc' = "done"
                    /\ err' = Err(f.err, 1)
                    /\ result' = << >>
                    /\ nextLink' = u
                    /\ bodies' = Closed(Deferred(bodies, u, resp))
                    /\ UNCHANGED <<keys, entries>>
               ELSE /\ keys' = [keys EXCEPT !.nextKey = f.nextKey]
                    /\ nextLink' = f.nextLink
                    /\ bodies' = Deferred(bodies, u, resp)
                    /\ entries' = IF counted THEN entries \o f.more ELSE entries
                    /\ UNCHANGED <<pc, err, result>>
    /\ UNCHANGED <<keys0, sent, firstHost, lastLink, count, totalPages, pages,
                   page, task, active, gerr, cancelled,
                   overtaken,
                   callerDone, earlier, input, output>>

\* the loop ends: unpage returns the accumulated entries
FollowReturn ==
    /\ pc = "follow"
    /\ nextLink = EmptyStr
    /\ pc' = "done"
    /\ result' = entries
    /\ bodies' = Closed(bodies)
    /\ UNCHANGED <<keys, keys0, api, requests, sent, firstHost, entries, nextLink,
                   lastLink, count, totalPages, pages, page, task, active, gerr,
                   cancelled, follows, err,
                   overtaken,
                   callerDone, earlier, input, output>>

Next ==
    \/ FirstPage
    \/ Go
    \/ LoopEnd
    \/ \E p \in DOMAIN task : WorkerSend(p)
    \/ \E p \in DOMAIN task : WorkerRecv(p)
    \/ \E p \in DOMAIN task : WorkerAbort(p)
    \/ WaitReturns
    \/ Flatten
    \/ FollowFetch
    \/ FollowReturn

Spec == Init /\ [][Next]_vars

\* the run goes on: every request is answered, with a response or an error,
\* and unpage takes its next step
SpecLive == Spec /\ WF_vars(Next)

(***************************************************************************)
(* The caller's deadline.  unpage takes no context from its caller: it     *)
(* starts from context.Background() (line 178), and the context of its     *)
(* requests is cancelled by the errgroup alone.  The deadline passes at    *)
(* any moment of a run; nothing in unpage reads it.                        *)
(***************************************************************************)
CallerCancels ==
    /\ pc # "done"
    /\ ~callerDone
    /\ callerDone' = TRUE
    /\ UNCHANGED <<pc, keys, keys0, api, requests, sent, firstHost, entries, nextLink,
                   lastLink, count, totalPages, pages, page, task, active, gerr,
                   cancelled, follows, result, err, overtaken, earlier, input,
                   output, bodies>>

NextCaller == Next \/ CallerCancels

SpecCaller == Init /\ [][NextCaller]_vars

(***************************************************************************)
(* Two runs.  unpage keeps nothing between its calls: a second call with   *)
(* the same arguments starts from the state of the first, and the API      *)
(* answers each URL as it did before.  The second call follows a run that  *)
(* returned entries.                                                       *)
(***************************************************************************)
Rerun ==
    /\ pc = "done"
    /\ err = NoErr
    /\ earlier = << >>
    /\ earlier' = Append(earlier, [result |-> result, err |-> err,
                                   overtaken |-> overtaken])
    /\ pc' = "first"
    /\ keys' = keys0
    /\ requests' = << >>
    /\ sent' = << >>
    /\ firstHost' = ""
    /\ entries' = << >>
    /\ nextLink' = EmptyStr
    /\ lastLink' = EmptyStr
    /\ count' = 0
    /\ totalPages' = 0
    /\ pages' = << >>
    /\ page' = 0
    /\ task' = << >>
    /\ active' = 0
    /\ gerr' = NoErr
    /\ cancelled' = FALSE
    /\ follows' = 0
    /\ result' = << >>
    /\ err' = NoErr
    /\ overtaken' = FALSE
    /\ UNCHANGED <<keys0, api, callerDone, input, output, bodies>>

NextTwice == Next \/ Rerun

SpecTwice == Init /\ [][NextTwice]_vars


(***************************************************************************)
(* getNestedValue on its own: called with a decoded object and a key path. *)
(* The objects have members "foo" and "bar", holding leaves, objects and   *)
(* objects in objects; one has a member named "", one a member whose name  *)
(* holds a dot.  The key paths are up to MaxSegments segments, "" among    *)
(* them, joined by dots.                                                   *)
(***************************************************************************)
Leaves == {JStr(<<"value">>), JNum(1), JNull, JArr(<< >>)}

Inner ==
    {Absent, JStr(<<"value">>), JNull,
     JObj(Members({<< <<"bar">>, JStr(<<"value">>) >>})),
     JObj(Members({<< <<"bar">>, JObj(Members({<< <<"baz">>, JStr(<<"value">>) >>})) >>})),
     JObj(Members({<< <<"bar">>, JNum(1) >>, << EmptyStr, JArr(<< >>) >>})),
     JObj(Members({<< <<"foo", ".", "bar">>, JNum(1) >>}))}

NestedDocs ==
    {JObj(Members({<< <<"foo">>, x >>, << <<"bar">>, y >>})) : x \in Inner, y \in Leaves \cup {Absent}}

Segments == {<<"foo">>, <<"bar">>, <<"baz">>, EmptyStr}

SegmentSeqs == UNION {[1..n -> Segments] : n \in 1..MaxSegments}

RECURSIVE Join(_, _)
\* the first n of the segments segs written as one key path
Join(segs, n) ==
    IF n = 1 THEN segs[1] ELSE Join(segs, n - 1) \o <<".">> \o segs[n]

KeyPaths == {Join(segs, Len(segs)) : segs \in SegmentSeqs}

InitPure(f, args) ==
    /\ pc = "call"
    /\ input = [f |-> f, args |-> args]
    /\ output = << >>
    /\ bodies = NoBodies
    /\ keys = [paramPage |-> EmptyStr, countKey |-> EmptyStr, dataKey |-> EmptyStr,
               nextKey |-> EmptyStr, lastKey |-> EmptyStr]
    /\ keys0 = keys
    /\ api = << >>
    /\ requests = << >>
    /\ sent = << >>
    /\ firstHost = ""
    /\ entries = << >>
    /\ nextLink = EmptyStr
    /\ lastLink = EmptyStr
    /\ count = 0
    /\ totalPages = 0
    /\ pages = << >>
    /\ page = 0
    /\ task = << >>
    /\ active = 0
    /\ gerr = NoErr
    /\ cancelled = FALSE
    /\ follows = 0
    /\ result = << >>
    /\ err = NoErr
    /\ overtaken = FALSE
    /\ callerDone = FALSE
    /\ earlier = << >>

InitNested ==
    \E d \in NestedDocs, key \in KeyPaths :
        InitPure("getNestedValue", [data |-> Decode(d), key |-> key])

\* the function returns
Returns(value) ==
    /\ pc = "call"
    /\ pc' = "returned"
    /\ output' = value
    /\ UNCHANGED <<keys, keys0, api, requests, sent, firstHost, entries, nextLink,
                   lastLink, count, totalPages, pages, page, task, active, gerr,
                   cancelled, follows, result, err, overtaken, callerDone, earlier,
                   input, bodies>>

CallGetNestedValue ==
    /\ input.f = "getNestedValue"
    /\ Returns(getNestedValue(input.args.data, input.args.key))

SpecNested == InitNested /\ [][CallGetNestedValue]_vars

(***************************************************************************)
(* getNextLastLinks on its own: called with the text of a Link header.     *)
(* The text is a sequence of tokens: the separators "<", ">", ",", ";",    *)
(* "=", the quote and the space, and stretches of other characters.  The   *)
(* function cuts it at the commas into chunks and each chunk at the        *)
(* semicolons into pieces, before it looks at any angle bracket.           *)
(***************************************************************************)
RECURSIVE SplitOnAcc(_, _, _, _, _)
SplitOnAcc(s, sep, i, cur, acc) ==
    IF i > Len(s) THEN Append(acc, cur)
    ELSE IF s[i] = sep THEN SplitOnAcc(s, sep, i + 1, << >>, Append(acc, cur))
    ELSE SplitOnAcc(s, sep, i + 1, Append(cur, s[i]), acc)

\* strings.Split(s, sep)
SplitOn(s, sep) == SplitOnAcc(s, sep, 1, << >>, << >>)

RECURSIVE Trim(_, _)
\* strings.Trim(s, cutset): s without its leading and trailing tokens of
\* cutset
Trim(s, cutset) ==
    IF Len(s) = 0 THEN s
    ELSE IF s[1] \in cutset THEN Trim(Tail(s), cutset)
    ELSE IF s[Len(s)] \in cutset THEN Trim(SubSeq(s, 1, Len(s) - 1), cutset)
    ELSE s

\* strings.TrimSpace
TrimSpace(s) == Trim(s, {" "})

\* what the inner loop makes of one piece (lines 48-59): a URL between
\* angle brackets, a rel parameter, or nothing of interest
Piece(piece) ==
    LET t == TrimSpace(piece)
        eq == {i \in 1..Len(t) : t[i] = "="}
        first == CHOOSE i \in eq : \A j \in eq : i <= j
        val == Trim(SubSeq(t, first + 1, Len(t)), {"\""})
    IN  IF Len(t) > 0 /\ t[1] = "<" /\ t[Len(t)] = ">"
        THEN PUrl(Trim(t, {"<", ">"}))
        ELSE IF eq # {} /\ SubSeq(t, 1, first - 1) = <<"rel">>
             THEN PRel(IF Len(val) = 1 THEN val[1] ELSE "")
        ELSE PText

\* the chunks of a header and the pieces of each (lines 45 and 47)
Chunks(header) ==
    LET cs == SplitOn(header, ",")
    IN  [i \in 1..Len(cs) |->
            LET ps == SplitOn(cs[i], ";")
            IN  [j \in 1..Len(ps) |-> Piece(ps[j])]]

\* the URLs of the links: plain ones, and one with a comma in its query
LinkURLs ==
    {<<"http://h1/?page=2">>, <<"http://h1/?page=3">>, <<"http://h1/?ids=1", ",", "2">>}

LinkRels == {"next", "last", "prev"}

\* a link entry: <url>; rel="rel", with or without a title after it
LinkEntry(url, rel, titled) ==
    <<"<">> \o url \o <<">", ";", " ", "rel", "=", "\"", rel, "\"">>
        \o (IF titled THEN <<";", " ", "title", "=", "\"", "x", "\"">> ELSE << >>)

LinkEntries == {LinkEntry(u, r, t) : u \in LinkURLs, r \in LinkRels, t \in BOOLEAN}

RECURSIVE HeaderOf(_, _)
\* the header of the first n of the entries es, ", " between them
HeaderOf(es, n) ==
    IF n = 0 THEN << >>
    ELSE IF n = 1 THEN es[1]
    ELSE HeaderOf(es, n - 1) \o <<",", " ">> \o es[n]

LinkEntrySeqs == UNION {[1..n -> LinkEntries] : n \in 0..MaxLinks}

\* malformed entries: a rel without a URL, a URL without its angle brackets,
\* a URL without a rel
NoURLEntry(rel) == <<"rel", "=", "\"", rel, "\"">>
NoBracketsEntry(url, rel) == url \o <<";", " ", "rel", "=", "\"", rel, "\"">>
NoRelEntry(url, titled) ==
    <<"<">> \o url \o <<">">>
        \o (IF titled THEN <<";", " ", "title", "=", "\"", "x", "\"">> ELSE << >>)

MalformedEntries ==
    {NoURLEntry(r) : r \in {"next", "last"}}
      \cup {NoBracketsEntry(<<"http://h1/?page=3">>, r) : r \in {"next", "last"}}
      \cup {NoRelEntry(<<"http://h1/?page=3">>, t) : t \in BOOLEAN}

\* the headers getNextLastLinks is given: entries of both kinds
HeaderEntrySeqs ==
    UNION {[1..n -> LinkEntries \cup MalformedEntries] : n \in 0..MaxLinks}

InitLinks ==
    \E es \in HeaderEntrySeqs :
        InitPure("getNextLastLinks", [header |-> HeaderOf(es, Len(es))])

CallGetNextLastLinks ==
    /\ input.f = "getNextLastLinks"
    /\ Returns(getNextLastLinks(Chunks(input.args.header)))

SpecLinks == InitLinks /\ [][CallGetNextLastLinks]_vars

(***************************************************************************)
(* The count arithmetic on its own: unpage at line 236 with a positive     *)
(* count and a first page of any size.                                     *)
(***************************************************************************)
InitCount ==
    /\ pc = "count"
    /\ \E c \in 1..MaxCount, n \in 0..MaxPageSize :
         /\ count = c
         /\ entries = Entries(FirstURL([paramPage |-> <<"page">>]), n)
    /\ keys = [paramPage |-> <<"page">>, countKey |-> <<"count">>,
               dataKey |-> <<"data">>, nextKey |-> EmptyStr, lastKey |-> EmptyStr]
    /\ keys0 = keys
    /\ api = << >>
    /\ requests = << FirstURL(keys) >>
    /\ sent = << >>
    /\ firstHost = HostOf(urlStr)
    /\ nextLink = EmptyStr
    /\ lastLink = EmptyStr
    /\ totalPages = 0
    /\ pages = << >>
    /\ page = 0
    /\ task = << >>
    /\ active = 0
    /\ gerr = NoErr
    /\ cancelled = FALSE
    /\ follows = 0
    /\ result = << >>
    /\ err = NoErr
    /\ overtaken = FALSE
    /\ callerDone = FALSE
    /\ earlier = << >>
    /\ input = << >>
    /\ output = << >>
    /\ bodies = NoBodies

\* lines 236-253: one page, or the page count and the slots
CountStep ==
    /\ pc = "count"
    /\ LET m == CountMode(count, Len(entries))
       IN IF m.ret
          THEN /\ pc' = "done"
               /\ result' = entries
               /\ UNCHANGED <<totalPages, pages, page>>
          ELSE /\ pc' = "counted"
               /\ totalPages' = m.total
               /\ pages' = Slots(m.total, entries)
               /\ page' = 2
               /\ UNCHANGED result
    /\ UNCHANGED <<keys, keys0, api, requests, sent, firstHost, entries, nextLink,
                   lastLink, count, task, active, gerr, cancelled, follows, err,
                   overtaken,
                   callerDone, earlier, input, output, bodies>>

SpecCount == InitCount /\ [][CountStep]_vars

(***************************************************************************)
(* The fan-out by numbers: the launch loop and the errgroup's semaphore    *)
(* for page counts beyond Limit, the tasks told apart no further than how  *)
(* many hold a token.                                                      *)
(***************************************************************************)
InitLimit ==
    /\ pc = "launch"
    /\ totalPages \in 1..(Limit + MaxExtra + 1)
    /\ page = 2
    /\ keys = [paramPage |-> <<"page">>, countKey |-> EmptyStr,
               dataKey |-> <<"data">>, nextKey |-> EmptyStr, lastKey |-> EmptyStr]
    /\ keys0 = keys
    /\ api = << >>
    /\ requests = << FirstURL(keys) >>
    /\ sent = << >>
    /\ firstHost = HostOf(urlStr)
    /\ entries = << >>
    /\ nextLink = EmptyStr
    /\ lastLink = EmptyStr
    /\ count = 0
    /\ pages = << >>
    /\ task = << >>
    /\ active = 0
    /\ gerr = NoErr
    /\ cancelled = FALSE
    /\ follows = 0
    /\ result = << >>
    /\ err = NoErr
    /\ overtaken = FALSE
    /\ callerDone = FALSE
    /\ earlier = << >>
    /\ input = << >>
    /\ output = << >>
    /\ bodies = NoBodies

\* g.Go(func): takes a token and starts the task of the loop's page
GoSome ==
    /\ pc = "launch"
    /\ page <= totalPages
    /\ CanGo(active)
    /\ active' = active + 1
    /\ page' = page + 1
    /\ UNCHANGED <<pc, keys, keys0, api, requests, sent, firstHost, entries,
                   nextLink, lastLink, count, totalPages, pages, task, gerr,
                   cancelled, follows, result, err, overtaken,
                   callerDone, earlier, input, output, bodies>>

\* some task returns, with nil or with an error: the first error is kept
\* and cancels the context; the token is given back
SomeReturns ==
    /\ pc \in {"launch", "wait"}
    /\ active > 0
    /\ \E e \in {"none", "status", "canceled"} :
         /\ e = "canceled" => cancelled
         /\ active' = active - 1
         /\ gerr' = IF e # "none" /\ gerr = NoErr THEN Err(e, 0) ELSE gerr
         /\ cancelled' = (cancelled \/ e # "none")
    /\ UNCHANGED <<pc, keys, keys0, api, requests, sent, firstHost, entries,
                   nextLink, lastLink, count, totalPages, pages, page, task,
                   follows, result, err, overtaken,
                   callerDone, earlier, input, output, bodies>>

NextLimit == GoSome \/ SomeReturns \/ LoopEnd \/ WaitReturns

SpecLimit == InitLimit /\ [][NextLimit]_vars

\* every request that was issued returns, and the launch loop and g.Wait go
\* on when they can
SpecLimitLive == SpecLimit /\ WF_vars(NextLimit)


(***************************************************************************)
(* What the API served, read off the wire: the vocabulary of the           *)
(* properties below.                                                       *)
(***************************************************************************)
Range(f) == {f[i] : i \in DOMAIN f}

\* the entries of a response's page, as the API wrote them
WireEntries(resp) ==
    IF resp.body.t = "array" THEN resp.body.a
    ELSE IF /\ resp.body.t = "object"
            /\ <<"data">> \in DOMAIN resp.body.m
            /\ resp.body.m[<<"data">>].t = "array"
         THEN resp.body.m[<<"data">>].a
    ELSE << >>

\* the member `name` of the object at "links" in a response's body
WireLink(resp, name) ==
    IF /\ resp.body.t = "object"
       /\ <<"links">> \in DOMAIN resp.body.m
       /\ resp.body.m[<<"links">>].t = "object"
       /\ name \in DOMAIN resp.body.m[<<"links">>].m
    THEN resp.body.m[<<"links">>].m[name]
    ELSE Absent

\* the URLs a response's body names as `name` ("next" or "last")
BodyURLs(resp, name) ==
    IF WireLink(resp, <<name>>).t = "string" THEN {WireLink(resp, <<name>>).s} ELSE {}

\* the URLs a response's Link header names with rel=name
HeaderURLs(resp, name) ==
    {c[1].v : c \in {d \in Range(resp.link) :
                        Len(d) = 2 /\ d[1].k = "url" /\ d[2] = PRel(name)}}

\* a link as the URL it addresses when the response came from host
Absolute(l, host) == IF Len(l) > 0 /\ l[1] = "/" THEN <<host>> \o l ELSE l

\* the URL of page p of the target
PageURL(p) ==
    LET tok == CHOOSE t \in Numerals : NumeralValue(t) = p
    IN  IF keys0.paramPage # EmptyStr THEN <<"http://h1", "/", "?page=", tok>>
        ELSE IF p = 1 THEN <<"http://h1", "/">>
        ELSE <<"http://h1", "/", "?=", tok>>

\* the answer the API gave to u
Served(u) == IF u \in DOMAIN api THEN api[u]
             ELSE [st |-> "none", body |-> JInvalid, link |-> << >>, host |-> ""]

RECURSIVE PagesInOrder(_)
\* the entries of pages 1..n of the target, page after page
PagesInOrder(n) ==
    IF n = 0 THEN << >> ELSE PagesInOrder(n - 1) \o WireEntries(Served(PageURL(n)))

RECURSIVE EntriesAlong(_, _)
\* the entries of the first n URLs of a sequence of URLs, page after page
EntriesAlong(urls, n) ==
    IF n = 0 THEN << >> ELSE EntriesAlong(urls, n - 1) \o WireEntries(Served(urls[n]))

\* urls is a chain under the links `name` found in the header (inHeader) or
\* in the body: each response names the next URL, and the last names none
IsChain(urls, inHeader) ==
    LET named(u) == IF inHeader THEN HeaderURLs(Served(u), "next")
                    ELSE BodyURLs(Served(u), "next")
    IN  /\ Len(urls) >= 1
        /\ \A i \in 1..(Len(urls) - 1) :
              {Absolute(l, Served(urls[i]).host) : l \in named(urls[i])} = {urls[i + 1]}
        /\ named(urls[Len(urls)]) = {}
        /\ \A i, j \in 1..Len(urls) : urls[i] = urls[j] => i = j

\* unpage has returned entries and no error
Succeeded == pc = "done" /\ err = NoErr

\* unpage is in, or has returned from, the bounded concurrent fetcher
FannedOut == pc \in {"launch", "wait", "flatten", "done"} /\ totalPages > 0

(***************************************************************************)
(* C1.  In known-total mode, whatever the order in which the workers'      *)
(* fetches complete, a successful unpage returns the entries of page 1,    *)
(* then page 2, ..., then page totalPages, each page's in its own order.   *)
(***************************************************************************)
C1_PageOrder ==
    (Succeeded /\ FannedOut) => result = PagesInOrder(totalPages)

\* a successful run of three full pages in which page 3 returned before page 2
C1_Witness ==
    /\ Succeeded
    /\ totalPages = 3
    /\ overtaken
    /\ Len(result) = 3 * MaxEntries

(***************************************************************************)
(* C2.  If any worker's fetch fails, unpage returns an error and no        *)
(* entries, also when page 1 and every other page were fetched.            *)
(***************************************************************************)
C2_WorkerFailureFailsAll ==
    (pc = "done" /\ \E p \in DOMAIN task : task[p] = "err")
        => (err # NoErr /\ result = << >>)

\* page 2 answered with a status other than 200 and page 3 was fetched and
\* stored
C2_Witness ==
    /\ pc = "done"
    /\ totalPages = 3
    /\ task[2] = "err"
    /\ task[3] = "ok"
    /\ Served(PageURL(2)).st = "status"
    /\ pages[3].set
    /\ err = Err("status", 2)

(***************************************************************************)
(* C3.  Sequential-next mode by the Link header (nextKey unconfigured, no  *)
(* last link): when the run succeeds, the URLs unpage requested are a      *)
(* chain from the first page, each response's header naming the next URL   *)
(* and the last naming none, every URL requested once, and the result is   *)
(* the entries of the chain's pages in that order.                         *)
(***************************************************************************)
C3_HeaderChain ==
    (/\ Succeeded
     /\ keys0.nextKey = EmptyStr
     /\ HeaderURLs(Served(FirstURL(keys0)), "last") = {})
        => /\ requests[1] = FirstURL(keys0)
           /\ IsChain(requests, TRUE)
           /\ result = EntriesAlong(requests, Len(requests))

\* a chain of three pages followed to its end, the first link a relative one
C3_Witness ==
    /\ Succeeded
    /\ keys0.nextKey = EmptyStr
    /\ Len(requests) = 3
    /\ HeaderURLs(Served(requests[1]), "next") = {Rel("2")}
    /\ Len(result) = 3 * MaxEntries

(***************************************************************************)
(* C4.  Sequential-next mode by the body key (nextKey configured, no last  *)
(* link, no count): when the run succeeds, the URLs unpage requested are a *)
(* chain from the first page, each body naming the next URL at nextKey and *)
(* the last naming none, every URL requested once, and the result is the   *)
(* entries of the chain's pages in that order.                             *)
(***************************************************************************)
C4_BodyKeyChain ==
    (/\ Succeeded
     /\ keys0.nextKey # EmptyStr
     /\ Served(FirstURL(keys0)).body.t = "object"
     /\ BodyURLs(Served(FirstURL(keys0)), "last") = {})
        => /\ requests[1] = FirstURL(keys0)
           /\ IsChain(requests, FALSE)
           /\ result = EntriesAlong(requests, Len(requests))

C6_CountRoundsUp ==
    pc = "counted"
        => /\ Len(entries) >= 1 /\ count > Len(entries)
           /\ totalPages * Len(entries) >= count
           /\ count > (totalPages - 1) * Len(entries)

\* a count that is no multiple of the page size
C6_Witness ==
    /\ pc = "counted"
    /\ count % Len(entries) # 0
    /\ totalPages >= 3

(***************************************************************************)
(* C7.  Count mode end to end: with countKey configured and a first page   *)
(* whose body carries a positive integer at that key and more entries than *)
(* page 1 holds, unpage reads the integer and returns without an error.    *)
(***************************************************************************)
C7_CountModeEndToEnd ==
    LET first == Served(FirstURL(keys0))
    IN  (/\ pc = "done"
         /\ keys0.countKey = <<"count">>
         /\ keys0.dataKey = <<"data">>
         /\ keys0.paramPage # EmptyStr
         /\ first.st = "ok"
         /\ first.body.t = "object"
         /\ <<"count">> \in DOMAIN first.body.m
         /\ first.body.m[<<"count">>] = JNum(3 * MaxEntries)
         /\ Len(WireEntries(first)) = MaxEntries
         /\ WireLink(first, <<"next">>).t \in {"absent", "null"}
         /\ WireLink(first, <<"last">>).t \in {"absent", "null"}
         /\ HeaderURLs(first, "last") = {})
            => err = NoErr

C9_StatusFailsNoRetry ==
    /\ (pc = "done" /\ \E u \in DOMAIN api : api[u].st = "status")
          => (err # NoErr /\ result = << >>)
    /\ \A i \in 1..(Len(requests) - 1) : Served(requests[i]).st = "ok"
    /\ \A p \in DOMAIN sent : Len(sent[p]) <= 1

\* the second page of a chain answered with a status other than 200
C9_Witness ==
    /\ pc = "done"
    /\ Len(requests) = 2
    /\ Served(requests[2]).st = "status"
    /\ err = Err("status", 1)

(***************************************************************************)
(* C10.  At most 50 tasks have been started and have not yet finished, for *)
(* any totalPages, also with more than 50 pages to fetch.                  *)
(***************************************************************************)
C10_AtMostFiftyInFlight == active <= 50

\* fifty tasks in flight while the launch loop still has a page to start
C10_Witness ==
    /\ pc = "launch"
    /\ active = 50
    /\ page <= totalPages

(***************************************************************************)
(* C11.  The slots are read only after every slot 1..totalPages has been   *)
(* written, that is after every task of the pages 2..totalPages has        *)
(* returned nil; once a task has failed the slots are never read, and no   *)
(* entries come out of them.                                               *)
(***************************************************************************)
C11_SlotsReadWhenAllWritten ==
    /\ pc = "flatten"
          => /\ Len(pages) = totalPages
             /\ \A i \in 1..totalPages : pages[i].set
             /\ DOMAIN task = 2..totalPages
             /\ \A p \in DOMAIN task : task[p] = "ok"
             /\ active = 0
    /\ (FannedOut /\ \E p \in DOMAIN task : task[p] = "err")
          => (pc # "flatten" /\ result = << >>)

\* the slots of three pages about to be read, page 3 written before page 2
C11_Witness ==
    /\ pc = "flatten"
    /\ totalPages = 3
    /\ overtaken
    /\ Len(pages[2].a) = MaxEntries

(***************************************************************************)
(* C12.  When several workers fail, unpage returns the error of the first  *)
(* worker that failed, as that worker returned it: the error the errgroup  *)
(* holds is set by the first task that returns an error, to that task's    *)
(* own error; no later error, a sibling's cancellation error included,     *)
(* replaces it; and g.Wait's error is what unpage returns.                 *)
(***************************************************************************)
C12_FirstErrorKept ==
    /\ [](/\ gerr.k # "canceled"
          /\ (gerr = NoErr) = (\A p \in DOMAIN task : task[p] # "err")
          /\ (pc = "done" /\ FannedOut /\ gerr # NoErr) => err = gerr)
    /\ [][/\ gerr # NoErr => gerr' = gerr
          /\ (gerr = NoErr /\ gerr' # NoErr)
                => LET p == gerr'.p
                   IN  /\ task[p] = "sent"
                       /\ task'[p] = "err"
                       /\ WorkerURL(keys0, p) \in DOMAIN api'
                       /\ gerr'.k = WorkerOutcome(api'[WorkerURL(keys0, p)], keys0).err]_vars

\* page 3 failed first, on its status; page 2, already requested, failed
\* later on its transport: unpage returns page 3's error
C12_Witness ==
    /\ pc = "done"
    /\ totalPages = 3
    /\ task[2] = "err"
    /\ task[3] = "err"
    /\ Served(PageURL(3)).st = "status"
    /\ Served(PageURL(2)).st = "transport"
    /\ err = Err("status", 3)

(***************************************************************************)
(* C13.  The first failure of a worker sets the cancellation signal, and   *)
(* from then on no task issues a request: a task that reaches its request  *)
(* after the signal ends with the cancellation error, without a request    *)
(* and without a page; requests issued before it complete or abort.        *)
(***************************************************************************)
C13_CancelStopsSiblings ==
    /\ [](/\ cancelled = (gerr # NoErr)
          /\ \A p \in DOMAIN task :
                /\ task[p] = "ok" => (sent[p] # << >> /\ pages[p].set)
                /\ (task[p] \in {"ok", "err"} /\ sent[p] = << >>)
                      => (task[p] = "err" /\ cancelled /\ ~pages[p].set))
    /\ [][cancelled => /\ sent' = sent
                       /\ \A p \in DOMAIN task :
                             (task[p] = "go" /\ task'[p] # "go")
                                => (task'[p] = "err" /\ pages'[p] = pages[p])]_vars

\* page 2 failed; the task of page 3, started but not yet sending, ended
\* without a request
C13_Witness ==
    /\ pc = "done"
    /\ totalPages = 3
    /\ gerr = Err("status", 2)
    /\ task[3] = "err"
    /\ sent[3] = << >>
    /\ PageURL(3) \notin DOMAIN api

(***************************************************************************)
(* C14.  unpage honours its caller's deadline: once the deadline has       *)
(* passed during a run, no request of the first-page fetch or of the       *)
(* follower is made and answered, no worker gets a page, and unpage does   *)
(* not go on to return entries it fetched afterwards.                      *)
(***************************************************************************)
C14_CallerSignalHonoured ==
    [][callerDone => /\ requests' = requests
                     /\ api' = api
                     /\ \A p \in DOMAIN task' :
                           task'[p] = "ok" => (p \in DOMAIN task /\ task[p] = "ok")]_vars

(***************************************************************************)
(* C15.  Two successful runs of unpage with the same configuration against *)
(* the same unchanged API return the same sequence of entries, whatever    *)
(* the order in which the workers of each run complete.                    *)
(***************************************************************************)
C15_SameResultEachRun ==
    (Succeeded /\ earlier # << >> /\ earlier[1].err = NoErr)
        => result = earlier[1].result

\* two successful runs over three pages: in the first the workers returned
\* in page order, in the second page 3 returned before page 2
C15_Witness ==
    /\ Succeeded
    /\ earlier # << >>
    /\ earlier[1].err = NoErr
    /\ ~earlier[1].overtaken
    /\ overtaken
    /\ totalPages = 3
    /\ Len(result) = 3 * MaxEntries

RECURSIVE Subtree(_, _, _)
\* what a decoded value holds at the segments i.. of segs: the value itself
\* past the last segment, the member named by the segment in a map, nothing
\* where there is no map or no such member
Subtree(value, segs, i) ==
    IF i > Len(segs) THEN << value >>
    ELSE IF value.t = "map" /\ segs[i] \in DOMAIN value.m
         THEN Subtree(value.m[segs[i]], segs, i + 1)
    ELSE << >>

(***************************************************************************)
(* C16.  getNestedValue: for every object and every non-empty key path,    *)
(* read as its segments between the dots: when every segment names a       *)
(* member through nested objects, the result is the value at the end of    *)
(* the path, whole; when a segment is missing or is looked up in something *)
(* that is no object, the result is nil.  It always returns.               *)
(***************************************************************************)
C16_NestedValue ==
    (pc = "returned" /\ input.f = "getNestedValue" /\ input.args.key # EmptyStr)
        => \A segs \in SegmentSeqs :
              Join(segs, Len(segs)) = input.args.key
                 => LET at == Subtree(input.args.data, segs, 1)
                    IN  output = IF at = << >> THEN Nil ELSE at[1]

\* "foo.bar" in {"foo": {"bar": {"baz": "value"}}}: the object at bar
C16_Witness ==
    /\ pc = "returned"
    /\ input.f = "getNestedValue"
    /\ input.args.key = <<"foo", ".", "bar">>
    /\ output = [t |-> "map", m |-> (<<"baz">> :> [t |-> "string", s |-> <<"value">>])]

\* the URLs of the entries among es whose rel is `rel`
EntryURLs(es, rel) ==
    {u \in LinkURLs : \E i \in DOMAIN es, t \in BOOLEAN : es[i] = LinkEntry(u, rel, t)}

(***************************************************************************)
(* C17.  getNextLastLinks: for a header of well-formed link entries, next  *)
(* is the URL of the entry with rel="next" and last the URL of the entry   *)
(* with rel="last", each empty when there is no such entry; entries with   *)
(* another rel change neither; the empty header gives ("", "").            *)
(***************************************************************************)
C17_NextLastFromHeader ==
    (pc = "returned" /\ input.f = "getNextLastLinks")
        => \A es \in LinkEntrySeqs :
              HeaderOf(es, Len(es)) = input.args.header
                 => LET want(rel, got) ==
                            /\ EntryURLs(es, rel) = {} => got = EmptyStr
                            /\ \A u \in LinkURLs : EntryURLs(es, rel) = {u} => got = u
                    IN  want("next", output.next) /\ want("last", output.last)

(***************************************************************************)
(* C18.  With paramPage empty there is no numeric paging: the first        *)
(* request is the target as given, no total page count is derived and no   *)
(* worker is started or sends a request, whatever last link or count page  *)
(* 1 supplies; with paramPage set, the first request is the target with    *)
(* paramPage=1.                                                            *)
(***************************************************************************)
C18_NoPagingWithoutParam ==
    /\ keys0.paramPage = EmptyStr
          => /\ totalPages = 0
             /\ ~FannedOut
             /\ task = << >> /\ sent = << >>
             /\ requests # << >> => requests[1] = <<"http://h1", "/">>
    /\ (keys0.paramPage # EmptyStr /\ requests # << >>)
          => requests[1] = <<"http://h1", "/", "?page=", "1">>

(***************************************************************************)
(* C19.  The slots are partitioned by index: slot 1 holds page 1's entries *)
(* from the moment the slots exist, before any task is started, and is     *)
(* never written again; a slot p >= 2 is written only by the task of page  *)
(* p, when it returns nil, and only once; a step of a task changes no slot *)
(* but its own, nor the entries of page 1, nor the keys.                   *)
(***************************************************************************)
C19_SlotsPartitioned ==
    /\ [](pages # << >>
            => /\ Len(pages) = totalPages
               /\ pages[1] = [set |-> TRUE, a |-> entries]
               /\ \A p \in DOMAIN task : pages[p].set = (task[p] = "ok"))
    /\ [][/\ \A i \in DOMAIN pages :
                pages'[i] # pages[i]
                   => /\ i \in DOMAIN task
                      /\ task[i] = "sent" /\ task'[i] = "ok"
                      /\ ~pages[i].set
                      /\ \A j \in DOMAIN pages : j # i => pages'[j] = pages[j]
          /\ (task # << >> /\ task' # task) => (entries' = entries /\ keys' = keys)]_vars

\* page 3 is in its slot, page 2 still in flight, page 1 where unpage put it
C19_Witness ==
    /\ pc = "wait"
    /\ totalPages = 3
    /\ task[2] = "sent"
    /\ task[3] = "ok"
    /\ Len(pages[3].a) = MaxEntries
    /\ ~pages[2].set
    /\ Len(pages[1].a) = MaxEntries

(***************************************************************************)
(* C20.  One strategy drives a run: the workers and the follower never     *)
(* both issue requests; the follower runs only when no total page count    *)
(* was derived; and once page 1 has supplied a last link or a positive     *)
(* count, the next link is never followed: the first request stays the     *)
(* only one unpage itself makes.                                           *)
(***************************************************************************)
C20_OneStrategy ==
    /\ ~(Len(requests) > 1 /\ \E p \in DOMAIN sent : sent[p] # << >>)
    /\ (pc = "follow" \/ Len(requests) > 1) => (totalPages = 0 /\ task = << >>)
    /\ (lastLink # EmptyStr \/ count > 0) => Len(requests) <= 1

(***************************************************************************)
(* C21.  A configured body key takes precedence over the Link header:      *)
(* with lastKey configured and nextKey not, when page 1's body carries a   *)
(* last link at lastKey and page 1 is accepted, the last link unpage works *)
(* with is the body's, resolved against the first response, whatever the   *)
(* Link header holds.                                                      *)
(***************************************************************************)
C21_BodyLastLinkWins ==
    LET first == Served(FirstURL(keys0))
    IN  (/\ pc \in {"launch", "wait", "flatten", "follow"}
         /\ keys0.lastKey # EmptyStr
         /\ keys0.nextKey = EmptyStr
         /\ BodyURLs(first, "last") # {})
            => lastLink \in {Absolute(l, first.host) : l \in BodyURLs(first, "last")}

\* the number at "count" in a response's body, 0 when there is none
WireCount(resp) ==
    IF /\ resp.body.t = "object"
       /\ <<"count">> \in DOMAIN resp.body.m
       /\ resp.body.m[<<"count">>].t = "number"
    THEN resp.body.m[<<"count">>].n
    ELSE 0

(***************************************************************************)
(* C22.  The count against the header's last link: with countKey           *)
(* configured, a positive count on page 1 that exceeds page 1's entries,   *)
(* and a rel="last" link in page 1's Link header, the total page count is  *)
(* the count divided by the page size, rounded up, and not the page named  *)
(* by the header's last link.                                              *)
(***************************************************************************)
C22_CountBeforeHeaderLast ==
    LET first == Served(FirstURL(keys0))
        n == Len(WireEntries(first))
    IN  (/\ pc # "first"
         /\ keys0.countKey = <<"count">>
         /\ keys0.dataKey = <<"data">>
         /\ keys0.paramPage # EmptyStr
         /\ keys0.nextKey = EmptyStr
         /\ first.st = "ok"
         /\ n >= 1
         /\ WireCount(first) > n
         /\ HeaderURLs(first, "last") # {})
            => totalPages = (WireCount(first) + n - 1) \div n

(***************************************************************************)
(* C23.  Count mode with one page: with countKey configured, a positive    *)
(* count on page 1 and a page 1 of no entries or of at least count         *)
(* entries, and no last link, unpage returns page 1's entries at once, its *)
(* first request the only one, also when page 1 names a next link.         *)
(***************************************************************************)
C23_CountOnePage ==
    LET first == Served(FirstURL(keys0))
        n == Len(WireEntries(first))
    IN  (/\ pc # "first"
         /\ keys0.countKey = <<"count">>
         /\ keys0.dataKey = <<"data">>
         /\ first.st = "ok"
         /\ first.body.t = "object"
         /\ <<"data">> \in DOMAIN first.body.m
         /\ first.body.m[<<"data">>].t = "array"
         /\ WireCount(first) > 0
         /\ (n = 0 \/ WireCount(first) <= n)
         /\ WireLink(first, <<"next">>).t \in {"absent", "null", "string"}
         /\ WireLink(first, <<"last">>).t \in {"absent", "null"}
         /\ HeaderURLs(first, "last") = {})
            => /\ pc = "done"
               /\ err = NoErr
               /\ result = WireEntries(first)
               /\ requests = << FirstURL(keys0) >>
               /\ sent = << >>

\* the last links of page 1 that unpage reads: the header's when nextKey is
\* not configured, else the body's at a configured lastKey
LastLinksRead ==
    LET first == Served(FirstURL(keys0))
    IN  IF first.st # "ok" THEN {}
        ELSE IF keys0.nextKey = EmptyStr THEN HeaderURLs(first, "last")
        ELSE IF keys0.lastKey # EmptyStr THEN BodyURLs(first, "last")
        ELSE {}

\* the link gives no number to the page parameter
NoPageNumber(l) ==
    LET tok == IF keys0.paramPage # EmptyStr THEN "?page=" ELSE "?="
    IN  ~\E i \in 1..(Len(l) - 1) : l[i] = tok /\ l[i + 1] \in Numerals

NextNamed(u) ==
    LET named == IF keys0.nextKey = EmptyStr THEN HeaderURLs(Served(u), "next")
                 ELSE BodyURLs(Served(u), "next")
    IN  {Absolute(l, Served(u).host) : l \in named}

RECURSIVE ChainLoops(_, _)
\* the chain of next links from u, through the pages answered so far, comes
\* back to a page it has already passed: the chain is not finite
ChainLoops(u, seen) ==
    IF u \in seen THEN TRUE
    ELSE IF u \notin DOMAIN api \/ Served(u).st # "ok" \/ NextNamed(u) = {}
         THEN FALSE
    ELSE ChainLoops(CHOOSE v \in NextNamed(u) : TRUE, seen \cup {u})

(***************************************************************************)
(* C25.  The follower terminates: when every request is answered, a run    *)
(* whose chain of next links is finite (it reaches a page that names no    *)
(* next link) eventually leaves the loop and unpage returns.  The claim    *)
(* also counts the requests; that they are the pages of the chain, each    *)
(* once, is C4, and the property here is termination alone.                *)
(***************************************************************************)
C25_FollowerTerminates ==
    <>(pc = "done" \/ ChainLoops(FirstURL(keys0), {}))


\* the request failed: a transport error or a status other than 200
FetchFails(resp) == resp.st # "ok"

\* the body of a fetched page is no JSON
DecodeFails(resp) == resp.st = "ok" /\ resp.body.t = "invalid"

\* the entries of a fetched page are not where dataKey says: the root is
\* neither an object nor an array, or an object and dataKey is not the name
\* of an array in it
DataMisshapen(resp) ==
    /\ resp.st = "ok"
    /\ resp.body.t # "invalid"
    /\ \/ resp.body.t \notin {"object", "array"}
       \/ /\ resp.body.t = "object"
          /\ \/ keys0.dataKey # <<"data">>
             \/ <<"data">> \notin DOMAIN resp.body.m
             \/ resp.body.m[<<"data">>].t # "array"

(***************************************************************************)
(* C26.  The sequential follower fails fast: a page of the chain whose     *)
(* fetch fails, whose body is no JSON or whose entries are misshapen is    *)
(* the last page requested; unpage returns the error and no entries, not   *)
(* those accumulated from the pages before.                                *)
(***************************************************************************)
C26_FollowerFailsFast ==
    totalPages = 0 =>
        \A i \in 1..Len(requests) :
            LET resp == Served(requests[i])
            IN  (FetchFails(resp) \/ DecodeFails(resp) \/ DataMisshapen(resp))
                    => /\ i = Len(requests)
                       /\ pc = "done"
                       /\ err # NoErr
                       /\ result = << >>

\* the third page of a chain failed after the entries of two pages were
\* accumulated
C26_Witness ==
    /\ pc = "done"
    /\ totalPages = 0
    /\ Len(requests) = 3
    /\ Len(entries) = 2 * MaxEntries
    /\ DecodeFails(Served(requests[3]))
    /\ err # NoErr
    /\ result = << >>


\* the member `name` of "links" in a fetched page is neither a string nor
\* null nor absent
LinkMistyped(resp, name) ==
    /\ resp.st = "ok"
    /\ WireLink(resp, <<name>>).t \notin {"string", "null", "absent"}

\* the member "count" of a fetched page is there and no number
CountMistyped(resp) ==
    /\ resp.st = "ok"
    /\ resp.body.t = "object"
    /\ <<"count">> \in DOMAIN resp.body.m
    /\ resp.body.m[<<"count">>].t \notin {"number", "null"}

\* the i-th page requested has a shape the configuration does not allow:
\* page 1 is read for its entries and every configured key, the pages of
\* the follower for their entries and nextKey, the workers' for their entries
WrongShape(i) ==
    LET resp == Served(requests[i])
    IN  \/ DataMisshapen(resp)
        \/ i = 1 /\ keys0.lastKey # EmptyStr /\ LinkMistyped(resp, "last")
        \/ i = 1 /\ keys0.countKey # EmptyStr /\ CountMistyped(resp)
        \/ /\ i = 1 \/ totalPages = 0
           /\ keys0.nextKey # EmptyStr
           /\ LinkMistyped(resp, "next")

(***************************************************************************)
(* C27.  A wrong shape is fatal on every page: when page 1, a worker's     *)
(* page or a followed page has no array at dataKey (or a root that is      *)
(* neither object nor array), a value at a configured nextKey or lastKey   *)
(* that is neither a string nor null, or a value at countKey that is no    *)
(* number, unpage returns an error and no entries.                         *)
(***************************************************************************)
C27_WrongShapeFatal ==
    (pc = "done" /\ \E i \in 1..Len(requests) : WrongShape(i))
        => (err # NoErr /\ result = << >>)


(***************************************************************************)
(* C28.  getNestedValue with the empty key path returns the root document  *)
(* unchanged, whatever the root object.                                    *)
(***************************************************************************)
C28_EmptyKeyIsRoot ==
    (pc = "returned" /\ input.f = "getNestedValue" /\ input.args.key = EmptyStr)
        => output = input.args.data


\* the URL and the rel of a link entry
EntryURL(e) == CHOOSE u \in LinkURLs : \E r \in LinkRels, t \in BOOLEAN : e = LinkEntry(u, r, t)
EntryRel(e) == CHOOSE r \in LinkRels : \E u \in LinkURLs, t \in BOOLEAN : e = LinkEntry(u, r, t)

\* the positions of the entries of es that carry rel
WithRel(es, rel) == {i \in DOMAIN es : EntryRel(es[i]) = rel}

\* the last position of a non-empty set of positions
LastOf(idx) == CHOOSE i \in idx : \A j \in idx : j <= i

(***************************************************************************)
(* C29.  getNextLastLinks with a rel repeated: when several entries of the *)
(* header carry rel="next" (rel="last"), next (last) is the URL of the     *)
(* last of them in header order.                                           *)
(***************************************************************************)
C29_LastDuplicateWins ==
    (pc = "returned" /\ input.f = "getNextLastLinks")
        => \A es \in LinkEntrySeqs :
              HeaderOf(es, Len(es)) = input.args.header
                 => LET want(rel, got) ==
                            Cardinality(WithRel(es, rel)) >= 2
                                => got = EntryURL(es[LastOf(WithRel(es, rel))])
                    IN  want("next", output.next) /\ want("last", output.last)


RECURSIVE WellFormedOnly(_, _)
\* the first n of the entries es without the malformed ones
WellFormedOnly(es, n) ==
    IF n = 0 THEN << >>
    ELSE IF es[n] \in MalformedEntries THEN WellFormedOnly(es, n - 1)
    ELSE Append(WellFormedOnly(es, n - 1), es[n])

(***************************************************************************)
(* C30.  getNextLastLinks tolerates malformed entries: an entry without an *)
(* angle-bracketed URL or without a rel contributes nothing, so for every  *)
(* header the result is the result for the header without its malformed    *)
(* entries.                                                                *)
(***************************************************************************)
C30_MalformedContributeNothing ==
    (pc = "returned" /\ input.f = "getNextLastLinks")
        => \A es \in HeaderEntrySeqs :
              HeaderOf(es, Len(es)) = input.args.header
                 => LET kept == WellFormedOnly(es, Len(es))
                    IN  output = getNextLastLinks(Chunks(HeaderOf(kept, Len(kept))))


(***************************************************************************)
(* C31.  In the sequential follower a relative next link found on a page   *)
(* is resolved against the scheme and host of that page's response, and an *)
(* absolute one is requested as it is: every request after the first is    *)
(* the link the page before it names, made absolute by that page's host.   *)
(* Stated for chains by the Link header; chains by the body key are C4.    *)
(***************************************************************************)
C31_ResolvedAgainstIssuer ==
    (totalPages = 0 /\ keys0.nextKey = EmptyStr)
        => \A i \in 2..Len(requests) : requests[i] \in NextNamed(requests[i - 1])


(***************************************************************************)
(* C32.  The key paths the caller passes are not changed during a run:     *)
(* dataKey, nextKey, lastKey, countKey and paramPage have, in every state, *)
(* the values unpage was called with, so every page is read with the keys  *)
(* page 1 was read with.                                                   *)
(***************************************************************************)
C32_KeysImmutable == keys = keys0


(***************************************************************************)
(* C33.  The fan-out does not deadlock: for any totalPages, also beyond    *)
(* the limit of 50 so that the launch loop has to wait for a token, when   *)
(* every request that was issued returns a response or an error, the loop  *)
(* starts every task, every task finishes and g.Wait returns, also when    *)
(* tasks fail.                                                             *)
(***************************************************************************)
C33_FanOutReturns ==
    <>(pc \in {"flatten", "done"} /\ active = 0 /\ page > totalPages)

\* g.Wait has returned an error after a run of more pages than tokens
C33_Witness ==
    /\ pc = "done"
    /\ totalPages = Limit + MaxExtra + 1
    /\ page > totalPages
    /\ active = 0
    /\ err # NoErr


NoLinkOnFirstPage ==
    LET first == Served(FirstURL(keys0))
    IN  /\ first.st = "ok"
        /\ first.body.t = "object"
        /\ ~DataMisshapen(first)
        /\ keys0.nextKey # EmptyStr
              => WireLink(first, <<"next">>).t \in {"absent", "null"}
        /\ keys0.lastKey # EmptyStr
              => WireLink(first, <<"last">>).t \in {"absent", "null"}
        /\ HeaderURLs(first, "next") = {}
        /\ HeaderURLs(first, "last") = {}

ArrayRoot(resp) == resp.st = "ok" /\ resp.body.t = "array"

(***************************************************************************)
(* C36.  A page whose root is a JSON array is its entries, whatever        *)
(* dataKey is, and nextKey, lastKey and countKey are not looked up on it:  *)
(* the body gives no shape error, no link and no count.  A page whose root *)
(* is an object is not taken as an entry array when dataKey is empty.      *)
(* Stated for page 1, for the workers' pages and for the followed pages.   *)
(***************************************************************************)
C36_ArrayRootIsEntries ==
    LET first == Served(FirstURL(keys0))
    IN  /\ (pc # "first" /\ ArrayRoot(first))
              => /\ (err.k = "type" /\ err.p = 1) => Len(requests) >= 2
                 /\ count = 0
                 /\ err = NoErr
                       => SubSeq(entries, 1, Len(first.body.a)) = first.body.a
                 /\ keys0.nextKey # EmptyStr
                       => /\ err = NoErr
                          /\ nextLink = EmptyStr
                          /\ lastLink = EmptyStr
                          /\ totalPages = 0
                          /\ requests = << FirstURL(keys0) >>
                          /\ pc = "done" => result = first.body.a
        /\ \A p \in DOMAIN task :
              ArrayRoot(Served(WorkerURL(keys0, p)))
                 => /\ task[p] = "ok"
                       => /\ pages[p].set
                          /\ pages[p].a = Served(WorkerURL(keys0, p)).body.a
                    /\ ~(gerr.p = p /\ gerr.k = "type")
        /\ (totalPages = 0 /\ Len(requests) >= 2 /\ ArrayRoot(Served(requests[Len(requests)])))
              => err = NoErr
        /\ (pc # "first" /\ first.st = "ok" /\ first.body.t = "object"
                /\ keys0.dataKey = EmptyStr)
              => /\ pc = "done"
                 /\ err.k = "type"
                 /\ result = << >>
                 /\ requests = << FirstURL(keys0) >>

\* page 1 was an array at its root and was returned as the entries, with
\* dataKey, nextKey and countKey configured
C36_Witness ==
    /\ pc = "done"
    /\ ArrayRoot(Served(FirstURL(keys0)))
    /\ keys0.dataKey # EmptyStr
    /\ keys0.nextKey # EmptyStr
    /\ keys0.countKey # EmptyStr
    /\ err = NoErr
    /\ Len(result) = MaxEntries


(***************************************************************************)
(* C37.  Every response body obtained during a run is closed by the time   *)
(* unpage returns, on every path: the first page's, also when its decode   *)
(* fails, each task's, each of the follower's, and that of a response      *)
(* whose status is not 200.                                                *)
(***************************************************************************)
C37_BodiesClosedAtReturn == pc = "done" => bodies = NoBodies

=============================================================================
